---- MODULE Spec2Model ----
(***************************************************************************)
(* Model of the NetBox settings resolver (settings.py) and of the two      *)
(* authentication backends (auth_backends.py).                             *)
(*                                                                         *)
(* Strings are sequences of tokens.  A token is either a separator         *)
(* character (".", "_", " ", "/", "*") or a word, a non-empty run of       *)
(* characters that holds no separator.  Two strings are equal exactly when *)
(* their token sequences are equal: no two word tokens are ever adjacent.  *)
(***************************************************************************)
EXTENDS Integers, Sequences, FiniteSets, TLC

VARIABLES
    \* ViewExemptModelBackend.has_perm
    EXEMPT_VIEW_PERMISSIONS,   \* settings.EXEMPT_VIEW_PERMISSIONS, a set of strings
    perm,                      \* the permission label of the call
    super_has_perm,            \* what ModelBackend.has_perm answers for (user_obj, perm, obj)
    perm_pc,                   \* "called" | "returned" | "raised"
    perm_result                \* the value has_perm returned

VARIABLES
    \* RemoteLDAPBackend.authenticate
    directory,                 \* the usernames the directory search maps to a DN
    remote_user,               \* the username the upstream proxy supplied
    auth_pc,                   \* "idle" | "called" | "returned"
    ldap_user,                 \* the _RemoteLDAPUser built for the request
    auth_password,             \* the password handed to authenticate_ldap_user
    dn_step,                   \* outcome of _authenticate_user_dn
    auth_user,                 \* what authenticate returned: a user or None
    auth_log                   \* dn_step of the requests served so far

VARIABLES
    \* settings.py, executed top to bottom at process start
    configuration,             \* the attributes of netbox.configuration (name -> value)
    pc,                        \* the section of settings.py about to run, "done" or "failed"
    settings,                  \* the module globals resolved so far (name -> value)
    error,                     \* the exception that aborted the import, if any
    warned,                    \* the warnings.warn calls so far
    plugin_index,              \* position of the plugin loop in PLUGINS (from 1)
    plugin_modules             \* how the plugin modules used so far behaved

perm_vars == <<EXEMPT_VIEW_PERMISSIONS, perm, super_has_perm, perm_pc, perm_result>>

auth_vars == <<directory, remote_user, auth_pc, ldap_user, auth_password, dn_step,
               auth_user, auth_log>>

settings_vars == <<configuration, pc, settings, error, warned, plugin_index,
                   plugin_modules>>

vars == <<perm_vars, auth_vars, settings_vars>>

(***************************************************************************)
(* Bounds                                                                  *)
(***************************************************************************)
MaxLabelLen == 7

MaxUserLen == 3

MaxRequests == 2

MaxPlugins == 2
\* Longest BASE_PATH tried, in tokens.
MaxPathLen == 5

(***************************************************************************)
(* Strings                                                                 *)
(***************************************************************************)
Separators == {".", "_", " ", "/", "*"}

IsWord(t) == t \notin Separators

\* No two words are adjacent: the token sequence of a string is unique.
WellFormed(s) == \A i \in 1..(Len(s) - 1) : ~(IsWord(s[i]) /\ IsWord(s[i + 1]))

RECURSIVE SeqsUpTo(_, _)
SeqsUpTo(S, n) ==
    IF n = 0 THEN {<<>>}
    ELSE LET shorter == SeqsUpTo(S, n - 1)
         IN  shorter \cup {Append(s, t) : s \in {x \in shorter : Len(x) = n - 1}, t \in S}

StringsOver(S, n) == {s \in SeqsUpTo(S, n) : WellFormed(s)}

\* str.split(sep): the parts between the occurrences of sep, one more part
\* than there are occurrences.
RECURSIVE Split(_, _)
Split(s, sep) ==
    IF \A i \in 1..Len(s) : s[i] # sep
    THEN <<s>>
    ELSE LET i == CHOOSE k \in 1..Len(s) : s[k] = sep /\ \A j \in 1..(k - 1) : s[j] # sep
         IN  <<SubSeq(s, 1, i - 1)>> \o Split(SubSeq(s, i + 1, Len(s)), sep)

\* str.partition(sep): (head, tail) around the first sep; (s, "") without one.
Partition(s, sep) ==
    IF \A i \in 1..Len(s) : s[i] # sep
    THEN <<s, <<>>>>
    ELSE LET i == CHOOSE k \in 1..Len(s) : s[k] = sep /\ \A j \in 1..(k - 1) : s[j] # sep
         IN  <<SubSeq(s, 1, i - 1), SubSeq(s, i + 1, Len(s))>>

(***************************************************************************)
(* ViewExemptModelBackend.has_perm                                         *)
(***************************************************************************)
LabelTokens == {".", "_", "view", "m"}

Labels == StringsOver(LabelTokens, MaxLabelLen)

WILDCARD == <<"*">>

ExemptEntries == {WILDCARD, <<"m", ".", "m">>, <<"m", ".", "m", "_", "m">>}

ExemptSets == SUBSET ExemptEntries

\* A variant that never fails: partition in place of split-and-unpack.
ParsePermPartition(p) ==
    LET a == Partition(p, ".")
        c == Partition(a[2], "_")
    IN  [ok |-> TRUE, app |-> a[1], action |-> c[1], model |-> c[2]]

\* app, codename = perm.split('.'); action, model = codename.split('_')
\* Unpacking raises ValueError unless each split yields exactly two parts.
ParsePerm(p) ==
    LET a == Split(p, ".")
    IN  IF Len(a) # 2
        THEN [ok |-> FALSE, app |-> <<>>, action |-> <<>>, model |-> <<>>]
        ELSE LET c == Split(a[2], "_")
             IN  IF Len(c) # 2
                 THEN [ok |-> FALSE, app |-> a[1], action |-> <<>>, model |-> <<>>]
                 ELSE [ok |-> TRUE, app |-> a[1], action |-> c[1], model |-> c[2]]

\* A variant that exempts every action.
IsViewActionAny(action) == TRUE

\* action == 'view'
IsViewAction(action) == action = <<"view">>

\* A variant that knows no wildcard.
IsExemptNoWildcard(exempt, app, model) == (app \o <<".">> \o model) \in exempt

\* '*' in EXEMPT_VIEW_PERMISSIONS or '{}.{}'.format(app, model) in EXEMPT_VIEW_PERMISSIONS
IsExempt(exempt, app, model) ==
    \/ WILDCARD \in exempt
    \/ (app \o <<".">> \o model) \in exempt

\* except ValueError: pass
ValueErrorCaught == TRUE

\* has_perm: what it returns, or that the parse's ValueError escapes it.
has_perm(exempt, p, super_result) ==
    LET parsed == ParsePerm(p)
    IN  IF parsed.ok /\ IsViewAction(parsed.action)
               /\ IsExempt(exempt, parsed.app, parsed.model)
        THEN [raised |-> FALSE, value |-> TRUE]
        ELSE IF ~parsed.ok /\ ~ValueErrorCaught
        THEN [raised |-> TRUE, value |-> FALSE]
        ELSE [raised |-> FALSE, value |-> super_result]

PermIdle ==
    /\ EXEMPT_VIEW_PERMISSIONS = {}
    /\ perm = <<>>
    /\ super_has_perm = FALSE
    /\ perm_pc = "returned"
    /\ perm_result = FALSE

PermInit ==
    /\ EXEMPT_VIEW_PERMISSIONS \in ExemptSets
    /\ perm \in Labels
    /\ super_has_perm \in BOOLEAN
    /\ perm_pc = "called"
    /\ perm_result = FALSE

HasPerm ==
    /\ perm_pc = "called"
    /\ LET r == has_perm(EXEMPT_VIEW_PERMISSIONS, perm, super_has_perm)
       IN  /\ perm_result' = r.value
           /\ perm_pc' = IF r.raised THEN "raised" ELSE "returned"
    /\ UNCHANGED <<EXEMPT_VIEW_PERMISSIONS, perm, super_has_perm>>
    /\ UNCHANGED <<auth_vars, settings_vars>>

(***************************************************************************)
(* RemoteLDAPBackend.authenticate and _RemoteLDAPUser._authenticate_user_dn *)
(***************************************************************************)
UserTokens == {" ", "j", "k"}

Usernames == StringsOver(UserTokens, MaxUserLen)

DirectoryEntries == {<<"j">>, <<"k">>, <<"j", " ", "k">>}

EmptyPassword == <<>>

NoUser == [found |-> FALSE, name |-> <<>>]

NoLdapUser == [username |-> <<>>, has_dn |-> FALSE]

\* str.strip(): the string without its leading and trailing whitespace.
RECURSIVE Strip(_)
Strip(s) ==
    IF s = <<>> THEN s
    ELSE IF Head(s) = " " THEN Strip(Tail(s))
    ELSE IF s[Len(s)] = " " THEN Strip(SubSeq(s, 1, Len(s) - 1))
    ELSE s

\* clean_username: the hook returns the username as given.
clean_username(username) == username

\* username = self.clean_username(remote_user); _RemoteLDAPUser(username=username.strip())
LdapUsername(user) == Strip(clean_username(user))

\* The base class's step: bind as the DN with the password; an empty
\* password is refused.
AuthenticateUserDnBind(has_dn, password) ==
    IF ~has_dn \/ password = EmptyPassword THEN "AuthenticationFailed" ELSE "passed"

\* _authenticate_user_dn: raises AuthenticationFailed("failed to map the
\* username to a DN.") when self.dn is None, and does nothing else.
AuthenticateUserDn(has_dn, password) ==
    IF ~has_dn THEN "AuthenticationFailed" ELSE "passed"

AuthIdle ==
    /\ directory = {}
    /\ remote_user = <<>>
    /\ auth_pc = "idle"
    /\ ldap_user = NoLdapUser
    /\ auth_password = EmptyPassword
    /\ dn_step = "none"
    /\ auth_user = NoUser
    /\ auth_log = <<>>

AuthInit ==
    /\ directory \in SUBSET DirectoryEntries
    /\ remote_user = <<>>
    /\ auth_pc = "idle"
    /\ ldap_user = NoLdapUser
    /\ auth_password = EmptyPassword
    /\ dn_step = "none"
    /\ auth_user = NoUser
    /\ auth_log = <<>>

\* The middleware hands the backend the username of a request.
AuthRequest ==
    /\ auth_pc \in {"idle", "returned"}
    /\ Len(auth_log) < MaxRequests
    /\ remote_user' \in Usernames
    /\ auth_pc' = "called"
    /\ ldap_user' = NoLdapUser
    /\ dn_step' = "none"
    /\ auth_user' = NoUser
    /\ UNCHANGED <<directory, auth_password, auth_log>>
    /\ UNCHANGED <<perm_vars, settings_vars>>

\* authenticate(request, remote_user): builds the _RemoteLDAPUser and calls
\* authenticate_ldap_user(ldap_user, ''), which runs _authenticate_user_dn and
\* then the library's remaining steps (requirements, user creation); any of
\* them failing makes the result None.
Authenticate ==
    /\ auth_pc = "called"
    /\ LET username == LdapUsername(remote_user)
           has_dn == username \in directory
           step == AuthenticateUserDn(has_dn, EmptyPassword)
       IN  /\ ldap_user' = [username |-> username, has_dn |-> has_dn]
           /\ auth_password' = EmptyPassword
           /\ dn_step' = step
           /\ auth_log' = Append(auth_log, step)
           /\ IF step = "passed"
              THEN \E rest_ok \in BOOLEAN :
                       auth_user' = IF rest_ok THEN [found |-> TRUE, name |-> username]
                                    ELSE NoUser
              ELSE auth_user' = NoUser
    /\ auth_pc' = "returned"
    /\ UNCHANGED <<directory, remote_user>>
    /\ UNCHANGED <<perm_vars, settings_vars>>

(***************************************************************************)
(* settings.py: the configuration source                                   *)
(***************************************************************************)
EmptyDict == [k \in {} |-> 0]

\* dict.get(key, default) and getattr(module, name, default)
Get(d, k, default) == IF k \in DOMAIN d THEN d[k] ELSE default

\* dict.update(e): the entries of e replace or extend those of d
Update(d, e) == e @@ d

None == "<None>"

NoError == [type |-> "none", msg |-> "", names |-> "", at |-> ""]

\* Either no entry for key, or one of the values.
Choice(key, values) == {EmptyDict} \cup {key :> v : v \in values}

PluginNames == {"p1", "p2", "p3"}

PluginLists ==
    {l \in SeqsUpTo(PluginNames, MaxPlugins) :
        \A i, j \in 1..Len(l) : l[i] = l[j] => i = j}

TasksDirect == [HOST |-> "tasks-host", PORT |-> 6380, DATABASE |-> 2, SSL |-> TRUE,
                SENTINELS |-> <<>>]

TasksSentinel == [SENTINELS |-> <<"sentinel-1">>, SENTINEL_SERVICE |-> "netbox",
                  PASSWORD |-> "secret"]

LegacyWebhooks == [HOST |-> "webhooks-host", DEFAULT_TIMEOUT |-> 60]

CachingSection == [HOST |-> "cache-host", DATABASE |-> 1]

RedisValues ==
    {t @@ w @@ c : t \in Choice("tasks", {TasksDirect, TasksSentinel}),
                   w \in Choice("webhooks", {LegacyWebhooks}),
                   c \in Choice("caching", {CachingSection})}

VALID_URL == "https://api.github.com/repos/netbox-community/netbox"

INVALID_URL == "not a url"

\* What django's URLValidator accepts, among the values configured here.
IsValidURL(url) == url = VALID_URL

\* Values tried for RELEASE_CHECK_TIMEOUT: around the threshold of line 126.
TimeoutValues == {3599, 3600, 3601}

Configurations ==
    {a @@ d @@ k @@ r @@ u @@ t @@ m @@ p @@ pcfg @@ sc :
        a \in Choice("ALLOWED_HOSTS", {<<"netbox.example.com">>}),
        d \in Choice("DATABASE", {[NAME |-> "netbox"]}),
        k \in Choice("SECRET_KEY", {"0123456789"}),
        r \in Choice("REDIS", RedisValues),
        u \in Choice("RELEASE_CHECK_URL", {VALID_URL, INVALID_URL}),
        t \in Choice("RELEASE_CHECK_TIMEOUT", TimeoutValues),
        m \in Choice("METRICS_ENABLED", {TRUE}),
        p \in {"PLUGINS" :> l : l \in PluginLists},
        pcfg \in Choice("PLUGINS_CONFIG", {"p1" :> [verbose |-> TRUE]}),
        sc \in Choice("STORAGE_CONFIG", {[AWS_STORAGE_BUCKET_NAME |-> "netbox"]})}

(***************************************************************************)
(* settings.py: the sections, in the order they run                        *)
(***************************************************************************)
\* The same keys in the alphabetical order of lines 54-57.
RequiredParametersSorted == <<"ALLOWED_HOSTS", "DATABASE", "REDIS", "SECRET_KEY">>

\* for parameter in ['ALLOWED_HOSTS', 'DATABASE', 'SECRET_KEY', 'REDIS']
RequiredParameters == <<"ALLOWED_HOSTS", "DATABASE", "SECRET_KEY", "REDIS">>

\* The first parameter of the loop that configuration lacks (hasattr fails).
FirstMissing(cfg) ==
    LET missing == {i \in 1..Len(RequiredParameters) : RequiredParameters[i] \notin DOMAIN cfg}
    IN  IF missing = {} THEN None
        ELSE RequiredParameters[CHOOSE i \in missing : \A j \in missing : i <= j]

SettingsInit ==
    /\ configuration \in Configurations
    /\ pc = "required"
    /\ settings = EmptyDict
    /\ error = NoError
    /\ warned = <<>>
    /\ plugin_index = 1
    /\ plugin_modules = <<>>

SettingsIdle ==
    /\ configuration = EmptyDict
    /\ pc = "done"
    /\ settings = EmptyDict
    /\ error = NoError
    /\ warned = <<>>
    /\ plugin_index = 1
    /\ plugin_modules = <<>>

\* ImproperlyConfigured(msg), raised in section at; names: the parameter or
\* plugin the message is formatted with.
ImproperlyConfigured(at, msg, names) ==
    [type |-> "ImproperlyConfigured", msg |-> msg, names |-> names, at |-> at]

\* An exception of a callee that settings.py neither raises nor catches.
Uncaught(at, type, names) ==
    [type |-> type, msg |-> "raised by the callee", names |-> names, at |-> at]

\* An exception leaves settings.py: the import, and with it startup, ends.
Abort(e) ==
    /\ pc' = "failed"
    /\ error' = e

\* Lines 46-51: enforce required configuration parameters.
EnforceRequired ==
    /\ pc = "required"
    /\ IF FirstMissing(configuration) # None
       THEN Abort(ImproperlyConfigured("required",
                      "Required parameter {} is missing from configuration.py.",
                      FirstMissing(configuration)))
       ELSE pc' = "parameters" /\ UNCHANGED error
    /\ UNCHANGED <<configuration, settings, warned, plugin_index, plugin_modules>>
    /\ UNCHANGED <<perm_vars, auth_vars>>

\* 24 * 3600
DEFAULT_RELEASE_CHECK_TIMEOUT == 24 * 3600

\* Lines 53-113: the required parameters, then getattr(configuration, name,
\* default) for the optional ones.  DATABASE, REDIS and PLUGINS_CONFIG are the
\* configuration's own objects, not copies.
ResolvedParameters(cfg) ==
    [ALLOWED_HOSTS |-> cfg["ALLOWED_HOSTS"],
     DATABASE |-> cfg["DATABASE"],
     REDIS |-> cfg["REDIS"],
     SECRET_KEY |-> cfg["SECRET_KEY"],
     METRICS_ENABLED |-> Get(cfg, "METRICS_ENABLED", FALSE),
     PLUGINS |-> Get(cfg, "PLUGINS", <<>>),
     PLUGINS_CONFIG |-> Get(cfg, "PLUGINS_CONFIG", EmptyDict),
     RELEASE_CHECK_URL |-> Get(cfg, "RELEASE_CHECK_URL", None),
     RELEASE_CHECK_TIMEOUT |-> Get(cfg, "RELEASE_CHECK_TIMEOUT", DEFAULT_RELEASE_CHECK_TIMEOUT),
     STORAGE_BACKEND |-> Get(cfg, "STORAGE_BACKEND", None),
     STORAGE_CONFIG |-> Get(cfg, "STORAGE_CONFIG", EmptyDict)]

SetParameters ==
    /\ pc = "parameters"
    /\ settings' = ResolvedParameters(configuration)
    /\ pc' = "validate_url"
    /\ UNCHANGED <<configuration, error, warned, plugin_index, plugin_modules>>
    /\ UNCHANGED <<perm_vars, auth_vars>>

\* URLValidator(RELEASE_CHECK_URL) constructs a validator, the value taken as
\* its first argument (schemes), and validates nothing: no ValidationError.
URLValidatorRaises(url) == FALSE

\* Lines 115-123: validate the update repository URL.
ValidateReleaseCheckURL ==
    /\ pc = "validate_url"
    /\ IF settings["RELEASE_CHECK_URL"] # None /\ URLValidatorRaises(settings["RELEASE_CHECK_URL"])
       THEN Abort(ImproperlyConfigured("validate_url",
                      "RELEASE_CHECK_URL must be a valid API URL.", ""))
       ELSE pc' = "validate_timeout" /\ UNCHANGED error
    /\ UNCHANGED <<configuration, settings, warned, plugin_index, plugin_modules>>
    /\ UNCHANGED <<perm_vars, auth_vars>>

MIN_RELEASE_CHECK_TIMEOUT == 3600

\* A variant that refuses the threshold itself.
TimeoutTooLowInclusive(t) == t <= MIN_RELEASE_CHECK_TIMEOUT

\* RELEASE_CHECK_TIMEOUT < 3600
TimeoutTooLow(t) == t < MIN_RELEASE_CHECK_TIMEOUT

\* Lines 125-127: enforce a minimum cache timeout for update checks.
EnforceReleaseCheckTimeout ==
    /\ pc = "validate_timeout"
    /\ IF TimeoutTooLow(settings["RELEASE_CHECK_TIMEOUT"])
       THEN Abort(ImproperlyConfigured("validate_timeout",
                      "RELEASE_CHECK_TIMEOUT has to be at least 3600 seconds (1 hour)", ""))
       ELSE pc' = "database" /\ UNCHANGED error
    /\ UNCHANGED <<configuration, settings, warned, plugin_index, plugin_modules>>
    /\ UNCHANGED <<perm_vars, auth_vars>>

\* Lines 134-146: DATABASE.update({'ENGINE': ...}) changes the dictionary the
\* configuration holds; DATABASES['default'] is that same dictionary.
SelectDatabaseEngine ==
    /\ pc = "database"
    /\ LET engine == IF settings["METRICS_ENABLED"]
                     THEN "django_prometheus.db.backends.postgresql"
                     ELSE "django.db.backends.postgresql"
           db == Update(settings["DATABASE"], "ENGINE" :> engine)
       IN  /\ configuration' = [configuration EXCEPT !["DATABASE"] = db]
           /\ settings' = ("DATABASES" :> ("default" :> db))
                              @@ [settings EXCEPT !["DATABASE"] = db]
    /\ pc' = "storage"
    /\ UNCHANGED <<error, warned, plugin_index, plugin_modules>>
    /\ UNCHANGED <<perm_vars, auth_vars>>

\* Lines 153-178, for STORAGE_BACKEND None (no configuration here sets it):
\* a STORAGE_CONFIG that is set is ignored with a warning.
MediaStorage ==
    /\ pc = "storage"
    /\ settings["STORAGE_BACKEND"] = None
    /\ warned' = IF settings["STORAGE_CONFIG"] # EmptyDict
                 THEN Append(warned, "STORAGE_CONFIG will be ignored")
                 ELSE warned
    /\ pc' = "redis_tasks"
    /\ UNCHANGED <<configuration, settings, error, plugin_index, plugin_modules>>
    /\ UNCHANGED <<perm_vars, auth_vars>>

\* A variant that prefers the legacy name.
TasksSectionLegacyFirst(redis) ==
    IF "webhooks" \in DOMAIN redis THEN "webhooks"
    ELSE IF "tasks" \in DOMAIN redis THEN "tasks"
    ELSE None

\* A variant without the legacy name.
TasksSectionNoLegacy(redis) ==
    IF "tasks" \in DOMAIN redis THEN "tasks" ELSE None

\* if 'tasks' in REDIS ... elif 'webhooks' in REDIS ... else raise
TasksSection(redis) ==
    IF "tasks" \in DOMAIN redis THEN "tasks"
    ELSE IF "webhooks" \in DOMAIN redis THEN "webhooks"
    ELSE None

WEBHOOKS_RENAMED == "The 'webhooks' REDIS configuration section has been renamed to 'tasks'."

\* Lines 199-210: the TASKS_REDIS_* settings of a section.  SENTINELS is a
\* list in every section configured here.
TasksRedisSettings(section) ==
    [TASKS_REDIS |-> section,
     TASKS_REDIS_HOST |-> Get(section, "HOST", "localhost"),
     TASKS_REDIS_PORT |-> Get(section, "PORT", 6379),
     TASKS_REDIS_SENTINELS |-> Get(section, "SENTINELS", <<>>),
     TASKS_REDIS_USING_SENTINEL |-> Len(Get(section, "SENTINELS", <<>>)) > 0,
     TASKS_REDIS_SENTINEL_SERVICE |-> Get(section, "SENTINEL_SERVICE", "default"),
     TASKS_REDIS_PASSWORD |-> Get(section, "PASSWORD", ""),
     TASKS_REDIS_DATABASE |-> Get(section, "DATABASE", 0),
     TASKS_REDIS_DEFAULT_TIMEOUT |-> Get(section, "DEFAULT_TIMEOUT", 300),
     TASKS_REDIS_SSL |-> Get(section, "SSL", FALSE)]

\* Lines 185-210: background task queuing.
ResolveTasksRedis ==
    /\ pc = "redis_tasks"
    /\ LET name == TasksSection(settings["REDIS"])
       IN  IF name = None
           THEN /\ Abort(ImproperlyConfigured("redis_tasks",
                    "REDIS section in configuration.py is missing the 'tasks' subsection.", ""))
                /\ UNCHANGED <<settings, warned>>
           ELSE /\ warned' = IF name = "webhooks" THEN Append(warned, WEBHOOKS_RENAMED)
                             ELSE warned
                /\ settings' = TasksRedisSettings(settings["REDIS"][name]) @@ settings
                /\ pc' = "redis_caching"
                /\ UNCHANGED error
    /\ UNCHANGED <<configuration, plugin_index, plugin_modules>>
    /\ UNCHANGED <<perm_vars, auth_vars>>

\* Lines 219-230: the CACHING_REDIS_* settings of the caching section.
CachingRedisSettings(section) ==
    [CACHING_REDIS |-> section,
     CACHING_REDIS_HOST |-> Get(section, "HOST", "localhost"),
     CACHING_REDIS_PORT |-> Get(section, "PORT", 6379),
     CACHING_REDIS_SENTINELS |-> Get(section, "SENTINELS", <<>>),
     CACHING_REDIS_USING_SENTINEL |-> Len(Get(section, "SENTINELS", <<>>)) > 0,
     CACHING_REDIS_SENTINEL_SERVICE |-> Get(section, "SENTINEL_SERVICE", "default"),
     CACHING_REDIS_PASSWORD |-> Get(section, "PASSWORD", ""),
     CACHING_REDIS_DATABASE |-> Get(section, "DATABASE", 0),
     CACHING_REDIS_DEFAULT_TIMEOUT |-> Get(section, "DEFAULT_TIMEOUT", 300),
     CACHING_REDIS_SSL |-> Get(section, "SSL", FALSE)]

\* Lines 212-230: caching.
ResolveCachingRedis ==
    /\ pc = "redis_caching"
    /\ IF "caching" \in DOMAIN settings["REDIS"]
       THEN /\ settings' = CachingRedisSettings(settings["REDIS"]["caching"]) @@ settings
            /\ pc' = "django"
            /\ UNCHANGED error
       ELSE /\ Abort(ImproperlyConfigured("redis_caching",
                "REDIS section in configuration.py is missing caching subsection.", ""))
            /\ UNCHANGED settings
    /\ UNCHANGED <<configuration, warned, plugin_index, plugin_modules>>
    /\ UNCHANGED <<perm_vars, auth_vars>>

VIEW_EXEMPT_BACKEND == "utilities.auth_backends.ViewExemptModelBackend"

REMOTE_LDAP_BACKEND == "utilities.auth_backends.RemoteLDAPBackend"

\* Lines 265-341: the lists the later sections extend.  Of INSTALLED_APPS,
\* MIDDLEWARE and CACHEOPS only what plugins add is kept; the fixed entries
\* before it are left out.
DjangoSettings ==
    /\ pc = "django"
    /\ settings' = [INSTALLED_APPS |-> <<>>,
                    MIDDLEWARE |-> <<>>,
                    CACHEOPS |-> {},
                    AUTHENTICATION_BACKENDS |-> <<VIEW_EXEMPT_BACKEND>>] @@ settings
    /\ pc' = "remote_ldap"
    /\ UNCHANGED <<configuration, error, warned, plugin_index, plugin_modules>>
    /\ UNCHANGED <<perm_vars, auth_vars>>

\* What the imports of lines 383 and 391-392 find, and whether
\* remote_ldap_config defines AUTH_LDAP_SERVER_URI.
LdapEnvironments == {"no remote_ldap_config", "no django_auth_ldap", "no AUTH_LDAP_SERVER_URI",
                     "configured"}

\* Lines 378-444: remote LDAP authentication (optional).
ConfigureRemoteLDAP ==
    /\ pc = "remote_ldap"
    /\ \E env \in LdapEnvironments :
        CASE env = "no remote_ldap_config" ->
                 pc' = "rq" /\ UNCHANGED <<settings, error>>
          [] env = "no django_auth_ldap" ->
                 /\ Abort(ImproperlyConfigured("remote_ldap",
                        "Remote LDAP authentication has been configured, but django-auth-ldap is not installed.",
                        ""))
                 /\ UNCHANGED settings
          [] env = "no AUTH_LDAP_SERVER_URI" ->
                 /\ Abort(ImproperlyConfigured("remote_ldap",
                        "Required parameter AUTH_LDAP_SERVER_URI is missing from remote_ldap_config.py.",
                        "AUTH_LDAP_SERVER_URI"))
                 /\ UNCHANGED settings
          [] env = "configured" ->
                 /\ settings' = [settings EXCEPT !["AUTHENTICATION_BACKENDS"] =
                                     <<REMOTE_LDAP_BACKEND>> \o @]
                 /\ pc' = "rq"
                 /\ UNCHANGED error
    /\ UNCHANGED <<configuration, warned, plugin_index, plugin_modules>>
    /\ UNCHANGED <<perm_vars, auth_vars>>

\* A variant that takes the sentinel shape whenever the section has a
\* SENTINELS key, empty or not.
RQParamsKeyed(s) ==
    IF "SENTINELS" \in DOMAIN s["TASKS_REDIS"]
    THEN [SENTINELS |-> s["TASKS_REDIS_SENTINELS"],
          MASTER_NAME |-> s["TASKS_REDIS_SENTINEL_SERVICE"],
          DB |-> s["TASKS_REDIS_DATABASE"],
          PASSWORD |-> s["TASKS_REDIS_PASSWORD"],
          SOCKET_TIMEOUT |-> None,
          CONNECTION_KWARGS |-> [socket_connect_timeout |-> s["TASKS_REDIS_DEFAULT_TIMEOUT"]]]
    ELSE [HOST |-> s["TASKS_REDIS_HOST"],
          PORT |-> s["TASKS_REDIS_PORT"],
          DB |-> s["TASKS_REDIS_DATABASE"],
          PASSWORD |-> s["TASKS_REDIS_PASSWORD"],
          DEFAULT_TIMEOUT |-> s["TASKS_REDIS_DEFAULT_TIMEOUT"],
          SSL |-> s["TASKS_REDIS_SSL"]]

\* Lines 592-611: RQ_PARAMS in sentinel or in direct shape.
RQParams(s) ==
    IF s["TASKS_REDIS_USING_SENTINEL"]
    THEN [SENTINELS |-> s["TASKS_REDIS_SENTINELS"],
          MASTER_NAME |-> s["TASKS_REDIS_SENTINEL_SERVICE"],
          DB |-> s["TASKS_REDIS_DATABASE"],
          PASSWORD |-> s["TASKS_REDIS_PASSWORD"],
          SOCKET_TIMEOUT |-> None,
          CONNECTION_KWARGS |-> [socket_connect_timeout |-> s["TASKS_REDIS_DEFAULT_TIMEOUT"]]]
    ELSE [HOST |-> s["TASKS_REDIS_HOST"],
          PORT |-> s["TASKS_REDIS_PORT"],
          DB |-> s["TASKS_REDIS_DATABASE"],
          PASSWORD |-> s["TASKS_REDIS_PASSWORD"],
          DEFAULT_TIMEOUT |-> s["TASKS_REDIS_DEFAULT_TIMEOUT"],
          SSL |-> s["TASKS_REDIS_SSL"]]

\* Lines 588-616: Django RQ.
ConfigureRQ ==
    /\ pc = "rq"
    /\ settings' = [RQ_PARAMS |-> RQParams(settings),
                    RQ_QUEUES |-> [default |-> RQParams(settings),
                                   check_releases |-> RQParams(settings)]] @@ settings
    /\ pc' = "plugins"
    /\ UNCHANGED <<configuration, error, warned, plugin_index, plugin_modules>>
    /\ UNCHANGED <<perm_vars, auth_vars>>

\* How the module a plugin name resolves to behaves when settings.py uses it.
PluginBehaviours ==
    {"ok",
     "import raises ImportError",         \* importlib.import_module: module not found
     "import raises another exception",   \* the module's own code fails while imported
     "no config",                         \* plugin.config: AttributeError
     "validate raises",                   \* plugin_config.validate(...) raises
     "no middleware",                     \* plugin_config.middleware: AttributeError
     "no caching_config",                 \* plugin_config.caching_config: AttributeError
     "caching_config is not a dict"}

\* A variant without the type check of caching_config.
PluginErrorUnchecked(module, plugin_name, named) ==
    CASE module = "import raises ImportError" ->
             ImproperlyConfigured("plugins", "Unable to import plugin {}: Module not found.",
                                  plugin_name)
      [] module = "import raises another exception" ->
             Uncaught("plugins", "Exception", IF named THEN plugin_name ELSE "")
      [] module = "no config" ->
             ImproperlyConfigured("plugins", "Plugin {} does not provide a 'config' variable.",
                                  plugin_name)
      [] module = "validate raises" ->
             Uncaught("plugins", "Exception", IF named THEN plugin_name ELSE "")
      [] module \in {"no middleware", "no caching_config"} ->
             Uncaught("plugins", "AttributeError", "")
      [] OTHER -> NoError

\* Lines 641-674: the exception one pass of the plugin loop ends with, if any.
\* Only ImportError of the import, AttributeError of plugin.config and a
\* caching_config that is no dict are turned into ImproperlyConfigured with
\* the plugin's name; whatever else is raised leaves settings.py as it is,
\* and whether its text names the plugin is up to its author (named).
PluginError(module, plugin_name, named) ==
    CASE module = "import raises ImportError" ->
             ImproperlyConfigured("plugins", "Unable to import plugin {}: Module not found.",
                                  plugin_name)
      [] module = "import raises another exception" ->
             Uncaught("plugins", "Exception", IF named THEN plugin_name ELSE "")
      [] module = "no config" ->
             ImproperlyConfigured("plugins", "Plugin {} does not provide a 'config' variable.",
                                  plugin_name)
      [] module = "validate raises" ->
             Uncaught("plugins", "Exception", IF named THEN plugin_name ELSE "")
      [] module \in {"no middleware", "no caching_config"} ->
             Uncaught("plugins", "AttributeError", "")
      [] module = "caching_config is not a dict" ->
             ImproperlyConfigured("plugins", "Plugin {} caching_config must be a dictionary.",
                                  plugin_name)
      [] OTHER -> NoError

\* The statements of one pass that ran before the exception, if any.
ReachedAppend(module) ==
    module \notin {"import raises ImportError", "import raises another exception", "no config"}

ReachedMiddleware(module) ==
    ReachedAppend(module) /\ module \notin {"validate raises", "no middleware"}

\* A variant that assigns the empty dictionary without looking first.
DefaultPluginConfigAlways(plugins_config, plugin_name) ==
    (plugin_name :> EmptyDict) @@ plugins_config

\* Lines 660-661: if plugin_name not in PLUGINS_CONFIG:
\*                    PLUGINS_CONFIG[plugin_name] = {}
DefaultPluginConfig(plugins_config, plugin_name) ==
    IF plugin_name \notin DOMAIN plugins_config
    THEN (plugin_name :> EmptyDict) @@ plugins_config
    ELSE plugins_config

\* Lines 639-677: one pass of the plugin loop, for PLUGINS[plugin_index].
\* PLUGINS_CONFIG[plugin_name] = {} writes to the configuration's own
\* dictionary when the configuration defines PLUGINS_CONFIG.
ResolvePlugin ==
    /\ pc = "plugins"
    /\ plugin_index <= Len(settings["PLUGINS"])
    /\ \E module \in PluginBehaviours, named \in BOOLEAN :
        LET plugin_name == settings["PLUGINS"][plugin_index]
            e == PluginError(module, plugin_name, named)
            apps == IF ReachedAppend(module)
                    THEN Append(settings["INSTALLED_APPS"], <<plugin_name, "config">>)
                    ELSE settings["INSTALLED_APPS"]
            pcfg == IF ReachedAppend(module)
                    THEN DefaultPluginConfig(settings["PLUGINS_CONFIG"], plugin_name)
                    ELSE settings["PLUGINS_CONFIG"]
            middleware == IF ReachedMiddleware(module)
                          THEN Append(settings["MIDDLEWARE"], <<plugin_name, "middleware">>)
                          ELSE settings["MIDDLEWARE"]
            cacheops == IF e = NoError
                        THEN settings["CACHEOPS"] \cup {<<plugin_name, "*">>}
                        ELSE settings["CACHEOPS"]
        IN  /\ plugin_modules' = Append(plugin_modules, module)
            /\ settings' = [settings EXCEPT !["INSTALLED_APPS"] = apps,
                                            !["PLUGINS_CONFIG"] = pcfg,
                                            !["MIDDLEWARE"] = middleware,
                                            !["CACHEOPS"] = cacheops]
            /\ configuration' = IF "PLUGINS_CONFIG" \in DOMAIN configuration
                                THEN [configuration EXCEPT !["PLUGINS_CONFIG"] = pcfg]
                                ELSE configuration
            /\ IF e = NoError
               THEN plugin_index' = plugin_index + 1 /\ UNCHANGED <<pc, error>>
               ELSE Abort(e) /\ UNCHANGED plugin_index
    /\ UNCHANGED warned
    /\ UNCHANGED <<perm_vars, auth_vars>>

\* The loop of line 639 is exhausted: settings.py has run to its end.
FinishPlugins ==
    /\ pc = "plugins"
    /\ plugin_index > Len(settings["PLUGINS"])
    /\ pc' = "done"
    /\ UNCHANGED <<configuration, settings, error, warned, plugin_index, plugin_modules>>
    /\ UNCHANGED <<perm_vars, auth_vars>>

SettingsNext ==
    \/ EnforceRequired
    \/ SetParameters
    \/ ValidateReleaseCheckURL
    \/ EnforceReleaseCheckTimeout
    \/ SelectDatabaseEngine
    \/ MediaStorage
    \/ ResolveTasksRedis
    \/ ResolveCachingRedis
    \/ DjangoSettings
    \/ ConfigureRemoteLDAP
    \/ ConfigureRQ
    \/ ResolvePlugin
    \/ FinishPlugins

(***************************************************************************)
(* settings.py: BASE_PATH and the URLs built from it                       *)
(***************************************************************************)
PathTokens == {"/", "a", "b"}

\* Values tried for BASE_PATH: a token "a" or "b" stands for a run of
\* characters other than '/'.
BasePaths == StringsOver(PathTokens, MaxPathLen)

\* str.strip('/'): the string without its leading and trailing '/'.
RECURSIVE StripSlash(_)
StripSlash(s) ==
    IF s = <<>> THEN s
    ELSE IF Head(s) = "/" THEN StripSlash(Tail(s))
    ELSE IF s[Len(s)] = "/" THEN StripSlash(SubSeq(s, 1, Len(s) - 1))
    ELSE s

\* Lines 68-69: if BASE_PATH: BASE_PATH = BASE_PATH.strip('/') + '/'
NormalizeBasePath(base_path) ==
    IF base_path # <<>> THEN StripSlash(base_path) \o <<"/">> ELSE base_path

\* Line 356: '/{}static/'.format(BASE_PATH)
STATIC_URL(base_path) == <<"/">> \o base_path \o <<"static", "/">>

\* Line 362: '/{}media/'.format(BASE_PATH)
MEDIA_URL(base_path) == <<"/">> \o base_path \o <<"media", "/">>

\* Line 373: '/{}login/'.format(BASE_PATH)
LOGIN_URL(base_path) == <<"/">> \o base_path \o <<"login", "/">>

\* settings.py is about to read BASE_PATH from a configuration that sets it,
\* or does not.
BasePathInit ==
    /\ configuration \in Choice("BASE_PATH", BasePaths)
    /\ pc = "base_path"
    /\ settings = EmptyDict
    /\ error = NoError
    /\ warned = <<>>
    /\ plugin_index = 1
    /\ plugin_modules = <<>>

\* Lines 67-69, 356, 362 and 373: BASE_PATH and the three URLs.
ResolveBasePath ==
    /\ pc = "base_path"
    /\ LET base_path == NormalizeBasePath(Get(configuration, "BASE_PATH", <<>>))
       IN  settings' = [BASE_PATH |-> base_path,
                        STATIC_URL |-> STATIC_URL(base_path),
                        MEDIA_URL |-> MEDIA_URL(base_path),
                        LOGIN_URL |-> LOGIN_URL(base_path)]
    /\ pc' = "done"
    /\ UNCHANGED <<configuration, error, warned, plugin_index, plugin_modules>>
    /\ UNCHANGED <<perm_vars, auth_vars>>

BasePathNext == ResolveBasePath

InitBasePath == BasePathInit /\ PermIdle /\ AuthIdle

SpecBasePath == InitBasePath /\ [][BasePathNext]_vars

PermNext == HasPerm

AuthNext == AuthRequest \/ Authenticate

InitPerm == PermInit /\ AuthIdle /\ SettingsIdle

InitAuth == AuthInit /\ PermIdle /\ SettingsIdle

Init == SettingsInit /\ PermIdle /\ AuthIdle

Next == SettingsNext

SpecPerm == InitPerm /\ [][PermNext]_vars

SpecAuth == InitAuth /\ [][AuthNext]_vars

Spec == Init /\ [][Next]_vars

(***************************************************************************)
(* Properties of ViewExemptModelBackend.has_perm                           *)
(***************************************************************************)
NoToken(s, t) == \A i \in 1..Len(s) : s[i] # t

\* p reads app.view_model: app holds no '.', model no '.' and no '_'.
IsViewLabel(p, app, model) ==
    /\ p = app \o <<".", "view", "_">> \o model
    /\ NoToken(app, ".")
    /\ NoToken(model, ".") /\ NoToken(model, "_")

Prefixes(p) == {SubSeq(p, 1, n) : n \in 0..Len(p)}

Suffixes(p) == {SubSeq(p, n, Len(p)) : n \in 1..(Len(p) + 1)}

\* The action of a label <app>.<action>_<model>: what precedes the first
\* '_' of what follows the first '.'.
ActionOf(p) == Partition(Partition(p, ".")[2], "_")[1]

\* No '.', or no '_' in the codename (what follows the first '.').
Malformed(p) == NoToken(p, ".") \/ NoToken(Partition(p, ".")[2], "_")

\* C1: a label app.view_model whose "app.model", or "*", is in the exemption
\* set is granted by has_perm whatever the standard check answers.
C1_ExemptViewGranted ==
    \A app \in Prefixes(perm), model \in Suffixes(perm) :
        (/\ perm_pc # "called"
         /\ IsViewLabel(perm, app, model)
         /\ (WILDCARD \in EXEMPT_VIEW_PERMISSIONS
               \/ (app \o <<".">> \o model) \in EXEMPT_VIEW_PERMISSIONS))
        => (perm_pc = "returned" /\ perm_result = TRUE)

C1_Witness ==
    /\ perm_pc = "returned"
    /\ perm = <<"m", ".", "view", "_", "m">>
    /\ EXEMPT_VIEW_PERMISSIONS = {<<"m", ".", "m">>}
    /\ super_has_perm = FALSE
    /\ perm_result = TRUE

\* C2: for a label whose action is not "view", has_perm returns what the
\* standard check answers, whatever the exemption set holds.
C2_NonViewDelegates ==
    (perm_pc # "called" /\ ActionOf(perm) # <<"view">>)
        => (perm_pc = "returned" /\ perm_result = super_has_perm)

C2_Witness ==
    /\ perm_pc = "returned"
    /\ perm = <<"m", ".", "m", "_", "m">>
    /\ EXEMPT_VIEW_PERMISSIONS = ExemptEntries
    /\ super_has_perm = FALSE
    /\ perm_result = FALSE

\* C3: for a malformed label (no '.', or no '_' in the codename) has_perm
\* raises nothing and returns what the standard check answers, also with
\* the wildcard in the exemption set.
C3_MalformedDelegates ==
    (perm_pc # "called" /\ Malformed(perm))
        => (perm_pc = "returned" /\ perm_result = super_has_perm)

C3_Witness ==
    /\ perm_pc = "returned"
    /\ perm = <<"m", ".", "view">>
    /\ WILDCARD \in EXEMPT_VIEW_PERMISSIONS
    /\ super_has_perm = FALSE
    /\ perm_result = FALSE

\* C12 as stated: the codename is split once, on its first '_', so a label
\* app.view_model whose model name holds '_' itself (app.view_m1_m2) has the
\* action "view" and is granted when "app.model" or "*" is in the exemption
\* set, whatever the standard check answers.
C12_SplitOnceGrants ==
    \A app \in Prefixes(perm), model \in Suffixes(perm) :
        (/\ perm_pc # "called"
         /\ perm = app \o <<".", "view", "_">> \o model
         /\ NoToken(app, ".") /\ NoToken(model, ".")
         /\ (WILDCARD \in EXEMPT_VIEW_PERMISSIONS
               \/ (app \o <<".">> \o model) \in EXEMPT_VIEW_PERMISSIONS))
        => (perm_pc = "returned" /\ perm_result = TRUE)

(***************************************************************************)
(* Properties of RemoteLDAPBackend.authenticate                            *)
(***************************************************************************)
\* C4: authenticate looks up strip(clean_username(remote_user)) with an
\* empty password; the DN step fails with AuthenticationFailed exactly when
\* the directory maps that username to no DN, whatever earlier requests
\* did, and then the request yields no user.
C4_DnStepOnlyOnDn ==
    auth_pc = "returned" =>
        /\ ldap_user.username = Strip(remote_user)
        /\ auth_password = EmptyPassword
        /\ ldap_user.has_dn = (Strip(remote_user) \in directory)
        /\ (dn_step = "AuthenticationFailed") = (Strip(remote_user) \notin directory)
        /\ (dn_step = "passed") = (Strip(remote_user) \in directory)
        /\ (dn_step = "AuthenticationFailed" => auth_user = NoUser)

C4_Witness ==
    /\ auth_pc = "returned"
    /\ Len(auth_log) = 2
    /\ auth_log[1] = "AuthenticationFailed"
    /\ remote_user = <<" ", "j", " ">>
    /\ ldap_user = [username |-> <<"j">>, has_dn |-> TRUE]
    /\ dn_step = "passed"
    /\ auth_user = [found |-> TRUE, name |-> <<"j">>]

(***************************************************************************)
(* Properties of settings.py                                               *)
(***************************************************************************)
Sections == <<"required", "parameters", "validate_url", "validate_timeout", "database",
              "storage", "redis_tasks", "redis_caching", "django", "remote_ldap", "rq",
              "plugins", "done">>

SectionIndex(s) == CHOOSE i \in 1..Len(Sections) : Sections[i] = s

\* The section has run to its end without raising.
Completed(section) ==
    SectionIndex(section) < SectionIndex(IF pc = "failed" THEN error.at ELSE pc)

\* The section has run: to its end, or until it raised.
Ran(section) ==
    \/ Completed(section)
    \/ pc = "failed" /\ error.at = section

\* C5: with a required key missing, resolution aborts with a configuration
\* error that names the first missing key in the order ALLOWED_HOSTS,
\* DATABASE, SECRET_KEY, REDIS, and no setting has been resolved by then.
C5_FirstMissingRequiredNamed ==
    LET order == <<"ALLOWED_HOSTS", "DATABASE", "SECRET_KEY", "REDIS">>
        missing == {i \in 1..4 : order[i] \notin DOMAIN configuration}
    IN  (pc # "required" /\ missing # {}) =>
            /\ pc = "failed"
            /\ error = [type |-> "ImproperlyConfigured",
                        msg |-> "Required parameter {} is missing from configuration.py.",
                        names |-> order[CHOOSE i \in missing : \A j \in missing : i <= j],
                        at |-> "required"]
            /\ settings = EmptyDict
            /\ warned = <<>>

C5_Witness ==
    /\ pc = "failed"
    /\ DOMAIN configuration \cap {"ALLOWED_HOSTS", "DATABASE", "SECRET_KEY", "REDIS"}
           = {"ALLOWED_HOSTS", "DATABASE"}
    /\ "RELEASE_CHECK_TIMEOUT" \in DOMAIN configuration
    /\ error.names = "SECRET_KEY"
    /\ settings = EmptyDict

\* C6 as stated: a failure at any step of a plugin's resolution aborts with
\* an error that names the offending plugin.
C6_EveryPluginFailureNamed ==
    (pc = "failed" /\ error.at = "plugins") =>
        error.names = settings["PLUGINS"][plugin_index]

\* C6, amended: a plugin module that fails at any step ends resolution at
\* that plugin; the error is ImproperlyConfigured with the plugin's name when
\* the import raised ImportError, the module has no config, or caching_config
\* is no dict, and otherwise the callee's own exception, not wrapped.
C6_PluginFailureAborts ==
    \A i \in 1..Len(plugin_modules) :
        plugin_modules[i] # "ok" =>
            /\ i = Len(plugin_modules)
            /\ i = plugin_index
            /\ pc = "failed"
            /\ error.at = "plugins"
            /\ IF plugin_modules[i] \in {"import raises ImportError", "no config",
                                         "caching_config is not a dict"}
               THEN /\ error.type = "ImproperlyConfigured"
                    /\ error.names = settings["PLUGINS"][i]
               ELSE /\ error.type \in {"Exception", "AttributeError"}
                    /\ error.msg = "raised by the callee"

C6_Witness ==
    /\ pc = "failed"
    /\ error.at = "plugins"
    /\ settings["PLUGINS"] = <<"p1", "p2">>
    /\ plugin_modules = <<"ok", "caching_config is not a dict">>
    /\ error.type = "ImproperlyConfigured"
    /\ error.names = "p2"

\* C7 as stated: a RELEASE_CHECK_URL that is no valid URL makes resolution
\* fail in the validation section; it does not go on.
C7_InvalidUrlAborts ==
    (/\ "RELEASE_CHECK_URL" \in DOMAIN configuration
     /\ Ran("validate_url"))
        => (~IsValidURL(configuration["RELEASE_CHECK_URL"])
                => (pc = "failed" /\ error.at = "validate_url"))

\* C8: the timeout check aborts exactly when RELEASE_CHECK_TIMEOUT, 86400
\* when the key is absent, is below 3600; 3600 and more pass it.
C8_TimeoutThreshold ==
    LET timeout == IF "RELEASE_CHECK_TIMEOUT" \in DOMAIN configuration
                   THEN configuration["RELEASE_CHECK_TIMEOUT"]
                   ELSE 86400
    IN  Ran("validate_timeout") =>
            /\ settings["RELEASE_CHECK_TIMEOUT"] = timeout
            /\ timeout < 3600 =>
                   /\ pc = "failed"
                   /\ error = [type |-> "ImproperlyConfigured",
                               msg |-> "RELEASE_CHECK_TIMEOUT has to be at least 3600 seconds (1 hour)",
                               names |-> "", at |-> "validate_timeout"]
            /\ timeout >= 3600 => Completed("validate_timeout")

C8_Witness ==
    /\ pc = "done"
    /\ "RELEASE_CHECK_TIMEOUT" \in DOMAIN configuration
    /\ configuration["RELEASE_CHECK_TIMEOUT"] = 3600

\* The task-queue settings a REDIS section resolves to.
TaskSettingsFrom(section) ==
    /\ settings["TASKS_REDIS"] = section
    /\ settings["TASKS_REDIS_HOST"] = Get(section, "HOST", "localhost")
    /\ settings["TASKS_REDIS_PORT"] = Get(section, "PORT", 6379)
    /\ settings["TASKS_REDIS_SENTINELS"] = Get(section, "SENTINELS", <<>>)
    /\ settings["TASKS_REDIS_SENTINEL_SERVICE"] = Get(section, "SENTINEL_SERVICE", "default")
    /\ settings["TASKS_REDIS_PASSWORD"] = Get(section, "PASSWORD", "")
    /\ settings["TASKS_REDIS_DATABASE"] = Get(section, "DATABASE", 0)
    /\ settings["TASKS_REDIS_DEFAULT_TIMEOUT"] = Get(section, "DEFAULT_TIMEOUT", 300)
    /\ settings["TASKS_REDIS_SSL"] = Get(section, "SSL", FALSE)

\* RQ_PARAMS, and both queues, hold the values of the section.
RQParamsFrom(section) ==
    LET params == settings["RQ_PARAMS"]
    IN  /\ params["DB"] = Get(section, "DATABASE", 0)
        /\ params["PASSWORD"] = Get(section, "PASSWORD", "")
        /\ "HOST" \in DOMAIN params =>
               /\ params["HOST"] = Get(section, "HOST", "localhost")
               /\ params["PORT"] = Get(section, "PORT", 6379)
               /\ params["DEFAULT_TIMEOUT"] = Get(section, "DEFAULT_TIMEOUT", 300)
               /\ params["SSL"] = Get(section, "SSL", FALSE)
        /\ "SENTINELS" \in DOMAIN params =>
               /\ params["SENTINELS"] = Get(section, "SENTINELS", <<>>)
               /\ params["MASTER_NAME"] = Get(section, "SENTINEL_SERVICE", "default")
               /\ params["CONNECTION_KWARGS"]["socket_connect_timeout"]
                      = Get(section, "DEFAULT_TIMEOUT", 300)
        /\ ("HOST" \in DOMAIN params) # ("SENTINELS" \in DOMAIN params)
        /\ settings["RQ_QUEUES"]["default"] = params
        /\ settings["RQ_QUEUES"]["check_releases"] = params

\* C9: with a 'tasks' section in REDIS, the task-queue section never fails,
\* TASKS_REDIS_* and RQ_PARAMS come from 'tasks' alone, whether or not
\* 'webhooks' is there, and no deprecation warning is emitted.
C9_TasksSectionOnly ==
    (/\ "REDIS" \in DOMAIN configuration
     /\ "tasks" \in DOMAIN configuration["REDIS"]
     /\ Ran("redis_tasks"))
        => /\ Completed("redis_tasks")
           /\ TaskSettingsFrom(configuration["REDIS"]["tasks"])
           /\ \A i \in 1..Len(warned) : warned[i] # WEBHOOKS_RENAMED
           /\ Completed("rq") => RQParamsFrom(configuration["REDIS"]["tasks"])

C9_Witness ==
    /\ pc = "done"
    /\ DOMAIN configuration["REDIS"] = {"tasks", "webhooks", "caching"}
    /\ configuration["REDIS"]["tasks"] = TasksDirect
    /\ settings["RQ_PARAMS"]["HOST"] = "tasks-host"
    /\ warned = <<"STORAGE_CONFIG will be ignored">>

LegacyOnly ==
    /\ "REDIS" \in DOMAIN configuration
    /\ "webhooks" \in DOMAIN configuration["REDIS"]
    /\ "tasks" \notin DOMAIN configuration["REDIS"]

\* C10 as stated: with 'webhooks' and no 'tasks' in REDIS, the Redis
\* sections resolve without error, from the legacy section and with the
\* deprecation warning.
C10_LegacyOnlyResolves ==
    (LegacyOnly /\ Ran("redis_caching"))
        => /\ Completed("redis_caching")
           /\ TaskSettingsFrom(configuration["REDIS"]["webhooks"])
           /\ \E i \in 1..Len(warned) : warned[i] = WEBHOOKS_RENAMED

\* C10, amended: with 'webhooks' and no 'tasks' in REDIS, the task-queue
\* section succeeds from the legacy section and emits the deprecation
\* warning once; the caching section that follows succeeds when REDIS has
\* 'caching' and aborts with ImproperlyConfigured when it has not.
C10_LegacyAcceptedCachingRequired ==
    (LegacyOnly /\ Ran("redis_tasks"))
        => /\ Completed("redis_tasks")
           /\ TaskSettingsFrom(configuration["REDIS"]["webhooks"])
           /\ Cardinality({i \in 1..Len(warned) : warned[i] = WEBHOOKS_RENAMED}) = 1
           /\ Completed("rq") => RQParamsFrom(configuration["REDIS"]["webhooks"])
           /\ Ran("redis_caching") =>
                  IF "caching" \in DOMAIN configuration["REDIS"]
                  THEN Completed("redis_caching")
                  ELSE /\ pc = "failed"
                       /\ error = [type |-> "ImproperlyConfigured",
                                   msg |-> "REDIS section in configuration.py is missing caching subsection.",
                                   names |-> "", at |-> "redis_caching"]

C10_Witness ==
    /\ pc = "done"
    /\ LegacyOnly
    /\ settings["TASKS_REDIS"] = LegacyWebhooks
    /\ settings["RQ_PARAMS"]["HOST"] = "webhooks-host"
    /\ warned = <<WEBHOOKS_RENAMED>>

\* C11: once the task queues are configured, RQ_PARAMS has exactly the keys
\* of the sentinel shape when the SENTINELS list of the task section in use
\* is non-empty, and exactly the keys of the direct shape when it is empty or
\* absent; the queues 'default' and 'check_releases' both hold RQ_PARAMS.
C11_RQParamsShape ==
    Completed("rq") =>
        LET redis == configuration["REDIS"]
            section == IF "tasks" \in DOMAIN redis THEN redis["tasks"] ELSE redis["webhooks"]
            sentinels == IF "SENTINELS" \in DOMAIN section THEN section["SENTINELS"] ELSE <<>>
            params == settings["RQ_PARAMS"]
        IN  /\ sentinels # <<>> <=>
                   DOMAIN params = {"SENTINELS", "MASTER_NAME", "DB", "PASSWORD",
                                    "SOCKET_TIMEOUT", "CONNECTION_KWARGS"}
            /\ sentinels = <<>> <=>
                   DOMAIN params = {"HOST", "PORT", "DB", "PASSWORD", "DEFAULT_TIMEOUT", "SSL"}
            /\ DOMAIN settings["RQ_QUEUES"] = {"default", "check_releases"}
            /\ settings["RQ_QUEUES"]["default"] = params
            /\ settings["RQ_QUEUES"]["check_releases"] = params

C11_Witness ==
    /\ pc = "done"
    /\ DOMAIN configuration["REDIS"] = {"tasks", "webhooks", "caching"}
    /\ configuration["REDIS"]["tasks"] = TasksSentinel
    /\ settings["RQ_PARAMS"]["SENTINELS"] = <<"sentinel-1">>
    /\ "HOST" \notin DOMAIN settings["RQ_PARAMS"]
    /\ settings["RQ_QUEUES"]["check_releases"]["MASTER_NAME"] = "netbox"

\* C13 as stated: no step of settings resolution changes anything reachable
\* from the configuration, the DATABASE and PLUGINS_CONFIG mappings included.
C13_ConfigurationUnchanged == [][configuration' = configuration]_vars

\* What one step may do to the DATABASE mapping of the configuration: the
\* engine section sets its ENGINE key, and nothing else ever changes.
DatabaseFrame(d, d2) ==
    /\ DOMAIN d \subseteq DOMAIN d2
    /\ DOMAIN d2 \subseteq DOMAIN d \cup {"ENGINE"}
    /\ \A k \in DOMAIN d \ {"ENGINE"} : d2[k] = d[k]
    /\ d2 # d =>
           /\ pc = "database"
           /\ d2["ENGINE"] \in {"django_prometheus.db.backends.postgresql",
                                "django.db.backends.postgresql"}

\* What one step may do to the PLUGINS_CONFIG mapping of the configuration:
\* a pass of the plugin loop adds an empty entry for its plugin when there
\* is none; the entries the configuration defines stay as they are.
PluginsConfigFrame(c, c2) ==
    /\ DOMAIN c \subseteq DOMAIN c2
    /\ \A name \in DOMAIN c : c2[name] = c[name]
    /\ \A name \in DOMAIN c2 \ DOMAIN c :
           /\ pc = "plugins"
           /\ name = settings["PLUGINS"][plugin_index]
           /\ c2[name] = EmptyDict

\* C13, amended: the statements of settings resolution change the
\* configuration in two places only: the engine section sets the ENGINE key
\* of the DATABASE mapping, and a pass of the plugin loop adds an empty entry
\* to a configured PLUGINS_CONFIG for a listed plugin that has none.  The
\* names the configuration defines, every other value, every other key of
\* DATABASE and every configured entry of PLUGINS_CONFIG stay the same,
\* whether resolution succeeds or aborts.
C13_ConfigurationFrame ==
    [][/\ DOMAIN configuration' = DOMAIN configuration
       /\ \A k \in DOMAIN configuration \ {"DATABASE", "PLUGINS_CONFIG"} :
              configuration'[k] = configuration[k]
       /\ "DATABASE" \in DOMAIN configuration =>
              DatabaseFrame(configuration["DATABASE"], configuration'["DATABASE"])
       /\ "PLUGINS_CONFIG" \in DOMAIN configuration =>
              PluginsConfigFrame(configuration["PLUGINS_CONFIG"],
                                 configuration'["PLUGINS_CONFIG"])]_vars

C13_Witness ==
    /\ pc = "done"
    /\ "PLUGINS_CONFIG" \in DOMAIN configuration
    /\ settings["PLUGINS"] = <<"p1", "p2">>
    /\ configuration["DATABASE"] = [NAME |-> "netbox",
                                    ENGINE |-> "django_prometheus.db.backends.postgresql"]
    /\ configuration["PLUGINS_CONFIG"] = ("p1" :> [verbose |-> TRUE]) @@ ("p2" :> EmptyDict)

(***************************************************************************)
(* Properties of BASE_PATH                                                 *)
(***************************************************************************)
\* The string holds '//' somewhere.
HasDoubleSlash(s) == \E i \in 1..(Len(s) - 1) : s[i] = "/" /\ s[i + 1] = "/"

\* C14 as stated: a non-empty configured BASE_PATH resolves to a value
\* without a leading '/', ending in exactly one '/', that normalizing again
\* leaves as it is, and LOGIN_URL, STATIC_URL and MEDIA_URL hold no '//';
\* an empty or absent BASE_PATH resolves to ''.
C14_TrailingSlashOnly ==
    (pc = "done" /\ "BASE_PATH" \in DOMAIN settings) =>
        LET configured == IF "BASE_PATH" \in DOMAIN configuration
                          THEN configuration["BASE_PATH"] ELSE <<>>
            resolved == settings["BASE_PATH"]
        IN  IF configured = <<>>
            THEN resolved = <<>>
            ELSE /\ resolved # <<>>
                 /\ Head(resolved) # "/"
                 /\ resolved[Len(resolved)] = "/"
                 /\ Len(resolved) > 1 => resolved[Len(resolved) - 1] # "/"
                 /\ NormalizeBasePath(resolved) = resolved
                 /\ ~HasDoubleSlash(settings["LOGIN_URL"])
                 /\ ~HasDoubleSlash(settings["STATIC_URL"])
                 /\ ~HasDoubleSlash(settings["MEDIA_URL"])

====
